---- MODULE Spec2Model ----
(***************************************************************************)
(* py-gics: the GICS resolver (gics/gics.py) over the Map record type      *)
(* (gics/map.py).  Python values are modelled as tagged records, Python    *)
(* strings as sequences of one-character strings, dicts as functions with  *)
(* an insertion-ordered key list.  A dict that lives inside the module     *)
(* level DEFINITIONS object carries shared = TRUE; a dict allocated by a   *)
(* call carries shared = FALSE, so that a write through an aliased entry   *)
(* lands in DEFINITIONS and a write to a private copy does not.            *)
(***************************************************************************)
EXTENDS Integers, Sequences, FiniteSets, TLC

VARIABLES definitions, objs, last

vars == <<definitions, objs, last>>

---------------------------------------------------------------------------
(* Bounds of the model *)

\* longest code string handed to the constructor (9 > 8 covers "too long")
MaxCodeLen == 9

\* integer arguments of level() range over -1 .. MaxLevelArg
MaxLevelArg == 5

\* characters code strings are made of
Alphabet == {"0", "1"}

\* the two program variables an instance can be bound to
Slots == {"a", "b"}

---------------------------------------------------------------------------
(* Python values *)

None == [kind |-> "none"]

PyBool(b) == [kind |-> "bool", b |-> b]

PyInt(n) == [kind |-> "int", n |-> n]

PyFloat(n) == [kind |-> "float", n |-> n]

\* a str the program inspects character by character
Str(s) == [kind |-> "str", chars |-> s]

\* a str the program only stores and compares (names, version identifiers)
Text(t) == [kind |-> "text", text |-> t]

List(s) == [kind |-> "list", elems |-> s]

\* bool(x)
Truthy(x) ==
  CASE x.kind = "none" -> FALSE
    [] x.kind = "bool" -> x.b
    [] x.kind = "int" -> x.n # 0
    [] x.kind = "float" -> x.n # 0
    [] x.kind = "str" -> Len(x.chars) > 0
    [] x.kind = "text" -> x.text # ""
    [] x.kind = "list" -> Len(x.elems) > 0
    [] x.kind = "map" -> DOMAIN x.items # {}
    [] OTHER -> TRUE

\* the number a bool, int or float stands for
NumVal(x) == IF x.kind = "bool" THEN (IF x.b THEN 1 ELSE 0) ELSE x.n

IsNum(x) == x.kind \in {"bool", "int", "float"}

\* x == y ; dicts compare by their items, whatever object they are
PyEq(x, y) ==
  IF IsNum(x) /\ IsNum(y) THEN NumVal(x) = NumVal(y)
  ELSE IF x.kind # y.kind THEN FALSE
  ELSE CASE x.kind = "none" -> TRUE
         [] x.kind = "str" -> x.chars = y.chars
         [] x.kind = "text" -> x.text = y.text
         [] x.kind = "map" -> x.items = y.items
         [] OTHER -> x = y

\* isinstance(x, str)
IsInstanceStr(x) == x.kind \in {"str", "text"}

\* isinstance(x, int) ; bool is a subclass of int
IsInstanceInt(x) == x.kind \in {"int", "bool"}

\* s[:n]
Prefix(s, n) == SubSeq(s, 1, IF n < Len(s) THEN n ELSE Len(s))

\* s.startswith(p)
startswith(s, p) == Len(p) <= Len(s) /\ SubSeq(s, 1, Len(p)) = p

---------------------------------------------------------------------------
(* gics/map.py *)

\* Map(d): a new dict object holding the same keys and the same value objects
Map(d) == [d EXCEPT !.shared = FALSE]

\* dict.get, which Map also uses as __getattr__
MapGet(m, k) == IF k \in DOMAIN m.items THEN m.items[k] ELSE None

\* dict.__setitem__ on an existing or new key, which Map uses as __setattr__
MapSet(m, k, v) ==
  [m EXCEPT !.items = [x \in DOMAIN m.items \cup {k} |->
                         IF x = k THEN v ELSE m.items[x]]]

\* isinstance(value, dict)
IsDict(x) == x.kind = "map"

\* create_recursively without the recursion: the values stay the objects
\* of the dict that was copied
create_recursively_shallow(data) == Map(data)

\* Map.create_recursively(data): every dict value is replaced by a copy
create_recursively(data) ==
  LET top == Map(data)
  IN [top EXCEPT !.items = [k \in DOMAIN top.items |->
                              IF IsDict(top.items[k])
                                THEN Map(top.items[k])
                                ELSE top.items[k]]]

---------------------------------------------------------------------------
(* gics/definitions: the versioned tables, one per standard revision.      *)
(* Every table holds an entry per code of length 2, 4, 6 or 8, holds the   *)
(* shorter prefixes of every code it holds, and gives a description to the *)
(* 8-character codes only.  A code can be retired or renamed between       *)
(* revisions ("1111" and "11" below).                                      *)

\* one row of a table: a code string and its record
Row(code, name) == [code |-> code, entry |-> [name |-> Text(name)]]

RowD(code, name, description) ==
  [code |-> code,
   entry |-> [name |-> Text(name), description |-> Text(description)]]

\* the dict a list of rows stands for, as an object of the DEFINITIONS tree
Table(rows) ==
  [kind |-> "map", shared |-> TRUE,
   keys |-> [i \in 1..Len(rows) |-> rows[i].code],
   items |-> [k \in {rows[i].code : i \in 1..Len(rows)} |->
                LET r == CHOOSE r \in {rows[i] : i \in 1..Len(rows)} : r.code = k
                IN [kind |-> "map", shared |-> TRUE, items |-> r.entry]]]

d_20140228 ==
  Table(<< Row(<<"1","0">>, "Energy"),
           Row(<<"1","1">>, "Financials"),
           Row(<<"1","1","1","1">>, "Real Estate") >>)

d_20160901 ==
  Table(<< Row(<<"1","0">>, "Energy"),
           Row(<<"1","1">>, "Financials") >>)

d_20180929 ==
  Table(<< Row(<<"1","0">>, "Energy"),
           Row(<<"1","1">>, "Communication Services") >>)

d_20230318 ==
  Table(<< Row(<<"1","0">>, "Energy"),
           Row(<<"1","0","1","0">>, "Energy"),
           Row(<<"1","0","1","0","1","0">>, "Energy Equipment & Services"),
           RowD(<<"1","0","1","0","1","0","1","0">>, "Oil & Gas Drilling",
                "Drilling contractors"),
           RowD(<<"1","0","1","0","1","0","1","1">>,
                "Oil & Gas Equipment & Services", "Equipment manufacturers"),
           Row(<<"1","1">>, "Communication Services") >>)

---------------------------------------------------------------------------
(* gics/gics.py *)

DEFINITIONS ==
  [kind |-> "map", shared |-> TRUE,
   keys |-> <<"20140228", "20160901", "20180929", "20230318">>,
   items |-> [v \in {"20140228", "20160901", "20180929", "20230318"} |->
                CASE v = "20140228" -> d_20140228
                  [] v = "20160901" -> d_20160901
                  [] v = "20180929" -> d_20180929
                  [] v = "20230318" -> d_20230318]]

DEFAULT_VERSION == Text("20230318")

\* a lookup that falls back to the default revision instead of failing
VersionGet_fallback(defs, version) ==
  IF version.kind = "text" /\ version.text \in DOMAIN defs.items
    THEN defs.items[version.text]
    ELSE defs.items[DEFAULT_VERSION.text]

\* DEFINITIONS.get(version) and list(DEFINITIONS.keys())
VersionGet(defs, version) ==
  IF version.kind = "text" /\ version.text \in DOMAIN defs.items
    THEN defs.items[version.text]
    ELSE None

VersionKeys(defs) == List([i \in 1..Len(defs.keys) |-> Text(defs.keys[i])])

\* the dict object an entry of self._definition denotes: the shared one of
\* DEFINITIONS when the entry is an alias of it, the private copy otherwise
Deref(self, defs, k) ==
  LET e == self._definition.items[k]
  IN IF e.shared THEN defs.items[self._definition_version.text].items[k] ELSE e

\* self._definition.get(code) for a str code
DefinitionGet(self, defs, key) ==
  IF key.kind = "str" /\ key.chars \in DOMAIN self._definition.items
    THEN Deref(self, defs, key.chars)
    ELSE None

\* GICS.code
code(self) == self._code

\* is_valid with len(code) > 2 for len(code) >= 2
is_valid_gt2(self, defs) ==
  IF ~Truthy(code(self)) THEN code(self)
  ELSE IF ~IsInstanceStr(code(self)) THEN PyBool(FALSE)
  ELSE IF ~(Len(code(self).chars) > 2) THEN PyBool(FALSE)
  ELSE IF ~(Len(code(self).chars) <= 8) THEN PyBool(FALSE)
  ELSE IF ~(Len(code(self).chars) % 2 = 0) THEN PyBool(FALSE)
  ELSE DefinitionGet(self, defs, code(self))

\* is_valid without the lookup in the table
is_valid_nolookup(self, defs) ==
  IF ~Truthy(code(self)) THEN code(self)
  ELSE IF ~IsInstanceStr(code(self)) THEN PyBool(FALSE)
  ELSE IF ~(Len(code(self).chars) >= 2) THEN PyBool(FALSE)
  ELSE IF ~(Len(code(self).chars) <= 8) THEN PyBool(FALSE)
  ELSE PyBool(Len(code(self).chars) % 2 = 0)

\* GICS.is_valid: the value of the chain of "and"s, the first falsy operand
\* or else the last one
is_valid(self, defs) ==
  IF ~Truthy(code(self)) THEN code(self)
  ELSE IF ~IsInstanceStr(code(self)) THEN PyBool(FALSE)
  ELSE IF ~(Len(code(self).chars) >= 2) THEN PyBool(FALSE)
  ELSE IF ~(Len(code(self).chars) <= 8) THEN PyBool(FALSE)
  ELSE IF ~(Len(code(self).chars) % 2 = 0) THEN PyBool(FALSE)
  ELSE DefinitionGet(self, defs, code(self))

\* the exceptions a call can end in
ValueError(version, defs) ==
  [kind |-> "exception", type |-> "ValueError",
   args |-> <<"Unsupported GICS version: ", version,
              ". Available versions are ", VersionKeys(defs)>>]

KeyError(key) == [kind |-> "exception", type |-> "KeyError", args |-> <<key>>]

\* GICS._get_definition(gics_code): the entry of self._definition, after its
\* code attribute was set.  The write goes to the object the entry denotes.
_get_definition(self, defs, gics_code) ==
  IF gics_code \notin DOMAIN self._definition.items
    THEN [raised |-> TRUE, value |-> KeyError(Str(gics_code)),
          self |-> self, defs |-> defs]
    ELSE LET e == self._definition.items[gics_code]
             v == self._definition_version.text
             definition == MapSet(Deref(self, defs, gics_code), "code",
                                  Str(gics_code))
         IN [raised |-> FALSE, value |-> definition,
             self |-> IF e.shared THEN self
                      ELSE [self EXCEPT !._definition.items[gics_code] =
                                          definition],
             defs |-> IF e.shared
                        THEN [defs EXCEPT !.items[v].items[gics_code] =
                                            definition]
                        ELSE defs]

\* one element of the list self._levels is built from: the definition of the
\* first 2*n characters when the length test of that element passes, else None
LevelElement(st, chars, n, wanted) ==
  IF st.raised THEN st
  ELSE IF ~wanted THEN [st EXCEPT !.levels = Append(@, None)]
  ELSE LET r == _get_definition(st.self, st.defs, Prefix(chars, 2 * n))
       IN IF r.raised
            THEN [st EXCEPT !.raised = TRUE, !.exc = r.value]
            ELSE [raised |-> FALSE, exc |-> None, self |-> r.self,
                  defs |-> r.defs, levels |-> Append(st.levels, r.value)]

\* GICS.__init__(code, version): the instance, or the exception raised, and
\* the DEFINITIONS object as the call leaves it
GICS_init(c, version, defs) ==
  LET _definition == VersionGet(defs, version)
  IN IF ~Truthy(_definition)
       THEN [raised |-> TRUE, exc |-> ValueError(version, defs),
             self |-> None, defs |-> defs]
       ELSE LET self0 == [kind |-> "GICS",
                          _definition_version |-> version,
                          _definition |-> create_recursively(_definition),
                          _code |-> c,
                          _levels |-> [kind |-> "unset"]]
            IN IF Truthy(is_valid(self0, defs))
                 THEN LET L == Len(c.chars)
                          s0 == [raised |-> FALSE, exc |-> None,
                                 self |-> self0, defs |-> defs,
                                 levels |-> <<>>]
                          s1 == LevelElement(s0, c.chars, 1, TRUE)
                          s2 == LevelElement(s1, c.chars, 2, L >= 4)
                          s3 == LevelElement(s2, c.chars, 3, L >= 6)
                          s4 == LevelElement(s3, c.chars, 4, L = 8)
                      IN [raised |-> s4.raised, exc |-> s4.exc,
                          self |-> [s4.self EXCEPT !._levels = List(s4.levels)],
                          defs |-> s4.defs]
                 ELSE [raised |-> FALSE, exc |-> None,
                       self |-> [self0 EXCEPT !._code = None],
                       defs |-> defs]

\* level with gics_level >= 4 for gics_level > 4
level_ge4(self, defs, gics_level) ==
  IF \/ ~Truthy(is_valid(self, defs))
     \/ ~Truthy(gics_level)
     \/ ~IsInstanceInt(gics_level)
     \/ NumVal(gics_level) < 1
     \/ NumVal(gics_level) >= 4
    THEN None
    ELSE self._levels.elems[NumVal(gics_level)]

\* GICS.level(gics_level)
level(self, defs, gics_level) ==
  IF \/ ~Truthy(is_valid(self, defs))
     \/ ~Truthy(gics_level)
     \/ ~IsInstanceInt(gics_level)
     \/ NumVal(gics_level) < 1
     \/ NumVal(gics_level) > 4
    THEN None
    ELSE self._levels.elems[NumVal(gics_level)]

\* GICS.sector, industry_group, industry, sub_industry
sector(self, defs) == level(self, defs, PyInt(1))

industry_group(self, defs) == level(self, defs, PyInt(2))

industry(self, defs) == level(self, defs, PyInt(3))

sub_industry(self, defs) == level(self, defs, PyInt(4))

\* the filter of a valid instance without the exact length: every descendant
ChildOfValid_descendants(self, k) ==
  startswith(k, self._code.chars) /\ Len(k) >= Len(self._code.chars) + 2

\* the filters of GICS.children on a key of self._definition: the one of a
\* valid instance and the one of an invalid instance
ChildOfValid(self, k) ==
  startswith(k, self._code.chars) /\ Len(k) = Len(self._code.chars) + 2

ChildOfInvalid(self, k) == Len(k) = 2

\* the Map that children builds for the key k
ChildEntry(self, defs, k) ==
  [kind |-> "map", shared |-> FALSE,
   items |-> [code |-> Str(k),
              name |-> MapGet(Deref(self, defs, k), "name"),
              description |-> MapGet(Deref(self, defs, k), "description")]]

\* list(map(..., keys))
ChildEntries(self, defs, keys) ==
  List([i \in 1..Len(keys) |-> ChildEntry(self, defs, keys[i])])

\* GICS.children: a new Map per selected key, in the order of the keys
children(self, defs) ==
  LET KeepValid(k) == ChildOfValid(self, k)
      KeepInvalid(k) == ChildOfInvalid(self, k)
  IN IF Truthy(is_valid(self, defs))
       THEN ChildEntries(self, defs,
                         SelectSeq(self._definition.keys, KeepValid))
       ELSE ChildEntries(self, defs,
                         SelectSeq(self._definition.keys, KeepInvalid))

\* x is False
IsFalse(x) == x.kind = "bool" /\ x.b = FALSE

\* GICS.is_same(another_gics)
is_same(self, another_gics, defs) ==
  IF ~Truthy(another_gics) THEN another_gics
  ELSE IF ~PyEq(is_valid(self, defs), is_valid(another_gics, defs))
    THEN PyBool(FALSE)
  ELSE IF IsFalse(is_valid(self, defs)) THEN PyBool(TRUE)
  ELSE PyBool(PyEq(self._code, code(another_gics)))

\* x.startswith(p) and len(x) of arbitrary values: only a str has the
\* method, only a str is accepted as the prefix, None and numbers have no len
AttributeError(name) ==
  [kind |-> "exception", type |-> "AttributeError", args |-> <<name>>]

TypeError(name) ==
  [kind |-> "exception", type |-> "TypeError", args |-> <<name>>]

IsException(x) == x.kind = "exception"

str_startswith(x, p) ==
  IF x.kind # "str" THEN AttributeError("startswith")
  ELSE IF p.kind # "str" THEN TypeError("startswith")
  ELSE PyBool(startswith(x.chars, p.chars))

len(x) ==
  IF x.kind = "str" THEN PyInt(Len(x.chars))
  ELSE IF x.kind = "list" THEN PyInt(Len(x.elems))
  ELSE TypeError("len")

\* is_within without the test that the codes differ
is_within_reflexive(self, another_gics, defs) ==
  IF ~Truthy(is_valid(self, defs)) THEN is_valid(self, defs)
  ELSE IF ~Truthy(is_valid(another_gics, defs))
    THEN is_valid(another_gics, defs)
  ELSE str_startswith(self._code, code(another_gics))

\* is_within without the test that the other instance is valid
is_within_unguarded(self, another_gics, defs) ==
  IF ~Truthy(is_valid(self, defs)) THEN is_valid(self, defs)
  ELSE IF ~(~PyEq(self._code, code(another_gics))) THEN PyBool(FALSE)
  ELSE str_startswith(self._code, code(another_gics))

\* GICS.is_within(another_gics)
is_within(self, another_gics, defs) ==
  IF ~Truthy(is_valid(self, defs)) THEN is_valid(self, defs)
  ELSE IF ~Truthy(is_valid(another_gics, defs))
    THEN is_valid(another_gics, defs)
  ELSE IF ~(~PyEq(self._code, code(another_gics))) THEN PyBool(FALSE)
  ELSE str_startswith(self._code, code(another_gics))

\* is_immediate_within without the comparison of the lengths
is_immediate_within_anydepth(self, another_gics, defs) ==
  IF ~Truthy(is_valid(self, defs)) THEN is_valid(self, defs)
  ELSE IF ~Truthy(is_valid(another_gics, defs))
    THEN is_valid(another_gics, defs)
  ELSE IF ~(~PyEq(self._code, code(another_gics))) THEN PyBool(FALSE)
  ELSE str_startswith(self._code, code(another_gics))

\* GICS.is_immediate_within(another_gics)
is_immediate_within(self, another_gics, defs) ==
  IF ~Truthy(is_valid(self, defs)) THEN is_valid(self, defs)
  ELSE IF ~Truthy(is_valid(another_gics, defs))
    THEN is_valid(another_gics, defs)
  ELSE IF ~(~PyEq(self._code, code(another_gics))) THEN PyBool(FALSE)
  ELSE LET sw == str_startswith(self._code, code(another_gics))
           l1 == len(self._code)
           l2 == len(another_gics._code)
       IN IF IsException(sw) \/ ~Truthy(sw) THEN sw
          ELSE IF IsException(l1) THEN l1
          ELSE IF IsException(l2) THEN l2
          ELSE PyBool(l1.n = l2.n + 2)

\* GICS.contains(another_gics)
contains(self, another_gics, defs) == is_within(another_gics, self, defs)

\* GICS.contains_immediate(another_gics)
contains_immediate(self, another_gics, defs) ==
  is_immediate_within(another_gics, self, defs)

---------------------------------------------------------------------------
(* Arguments the calls are made with *)

\* every string of at most n characters
Strings(n) == UNION {[1..k -> Alphabet] : k \in 0..n}

\* the keys of all tables
AllKeys == UNION {DOMAIN DEFINITIONS.items[v].items : v \in DOMAIN DEFINITIONS.items}

\* code arguments: no code, numbers, and every string up to MaxCodeLen
PyCodes ==
  {None, PyInt(0), PyInt(10)} \cup {Str(s) : s \in Strings(MaxCodeLen)}

\* code arguments of the two-instance runs: every key of some table, every
\* string of at most MaxMalformedLen characters, no code, a number
MaxMalformedLen == 1

PairCodes ==
  {None, PyInt(10)} \cup {Str(s) : s \in AllKeys \cup Strings(MaxMalformedLen)}

\* version arguments: the known identifiers and some that are not known
PyVersions ==
  {Text(v) : v \in DOMAIN DEFINITIONS.items} \cup
    {Text("blabla"), None}

\* arguments of level()
LevelArgs ==
  {PyInt(n) : n \in -1..MaxLevelArg} \cup
    {None, PyBool(TRUE), PyFloat(2), Str(<<"1">>)}

\* arguments of level() of the two-instance runs: the four levels
PairLevelArgs == {PyInt(n) : n \in 1..4}

---------------------------------------------------------------------------
(* The program: instances are constructed and bound to a variable, and the *)
(* bound instances are queried.  last is the latest call and its outcome.  *)

Unbound == [kind |-> "unbound"]

Bound(s) == objs[s].kind = "GICS"

Call(op, self, other, args, raised, value) ==
  [op |-> op, self |-> self, other |-> other, args |-> args,
   raised |-> raised, value |-> value]

Init ==
  /\ definitions = DEFINITIONS
  /\ objs = [s \in Slots |-> Unbound]
  /\ last = Call("start", "-", "-", <<>>, FALSE, None)

\* s = GICS(c, version), the one assignment to the variable s.  An exception
\* is not caught: it ends the run.
New(c, version, s) ==
  LET r == GICS_init(c, version, definitions)
  IN /\ ~last.raised
     /\ objs[s] = Unbound
     /\ definitions' = r.defs
     /\ objs' = IF r.raised THEN objs ELSE [objs EXCEPT ![s] = r.self]
     /\ last' = Call("GICS", s, "-", <<c, version>>, r.raised,
                     IF r.raised THEN r.exc ELSE None)

\* s = GICS(c) and s = GICS(): version, and code, take their defaults
NewDefault(c, s) ==
  LET r == GICS_init(c, DEFAULT_VERSION, definitions)
  IN /\ ~last.raised
     /\ objs[s] = Unbound
     /\ definitions' = r.defs
     /\ objs' = IF r.raised THEN objs ELSE [objs EXCEPT ![s] = r.self]
     /\ last' = Call("GICS", s, "-", <<c>>, r.raised,
                     IF r.raised THEN r.exc ELSE None)

\* a call of a method or property of objs[s] that takes no GICS argument
Query(op, s, args, value) ==
  /\ ~last.raised
  /\ Bound(s)
  /\ last' = Call(op, s, "-", args, FALSE, value)
  /\ UNCHANGED <<definitions, objs>>

\* a call objs[s].op(objs[t])
Query2(op, s, t, value) ==
  /\ ~last.raised
  /\ Bound(s)
  /\ Bound(t)
  /\ last' = Call(op, s, t, <<>>, IsException(value), value)
  /\ UNCHANGED <<definitions, objs>>

GetIsValid(s) == Query("is_valid", s, <<>>, is_valid(objs[s], definitions))

GetCode(s) == Query("code", s, <<>>, code(objs[s]))

CallLevel(s, n) == Query("level", s, <<n>>, level(objs[s], definitions, n))

GetSector(s) == Query("sector", s, <<>>, sector(objs[s], definitions))

GetIndustryGroup(s) ==
  Query("industry_group", s, <<>>, industry_group(objs[s], definitions))

GetIndustry(s) == Query("industry", s, <<>>, industry(objs[s], definitions))

GetSubIndustry(s) ==
  Query("sub_industry", s, <<>>, sub_industry(objs[s], definitions))

GetChildren(s) == Query("children", s, <<>>, children(objs[s], definitions))

CallIsSame(s, t) == Query2("is_same", s, t, is_same(objs[s], objs[t], definitions))

CallIsWithin(s, t) ==
  Query2("is_within", s, t, is_within(objs[s], objs[t], definitions))

CallIsImmediateWithin(s, t) ==
  Query2("is_immediate_within", s, t,
         is_immediate_within(objs[s], objs[t], definitions))

CallContains(s, t) ==
  Query2("contains", s, t, contains(objs[s], objs[t], definitions))

CallContainsImmediate(s, t) ==
  Query2("contains_immediate", s, t,
         contains_immediate(objs[s], objs[t], definitions))

\* the calls on one instance, level() with its argument drawn from A
Queries(s, A) ==
  \/ GetIsValid(s)
  \/ GetCode(s)
  \/ \E n \in A : CallLevel(s, n)
  \/ GetSector(s)
  \/ GetIndustryGroup(s)
  \/ GetIndustry(s)
  \/ GetSubIndustry(s)
  \/ GetChildren(s)

\* the calls on two instances
Relations(s, t) ==
  \/ CallIsSame(s, t)
  \/ CallIsWithin(s, t)
  \/ CallIsImmediateWithin(s, t)
  \/ CallContains(s, t)
  \/ CallContainsImmediate(s, t)

\* the constructor calls that assign the variable s, codes drawn from C
Constructions(C, s) ==
  /\ ~last.raised
  /\ objs[s] = Unbound
  /\ \/ \E c \in C, v \in PyVersions : New(c, v, s)
     \/ \E c \in C : NewDefault(c, s)

\* two variables, codes from PairCodes, level() of the four levels
Next ==
  \/ \E s \in Slots : Constructions(PairCodes, s)
  \/ \E s \in Slots : Queries(s, PairLevelArgs)
  \/ \E s \in Slots, t \in Slots : Relations(s, t)

Spec == Init /\ [][Next]_vars

\* one variable, codes from PyCodes
NextOne ==
  \/ Constructions(PyCodes, "a")
  \/ Queries("a", LevelArgs)

SpecOne == Init /\ [][NextOne]_vars

---------------------------------------------------------------------------
(* Properties *)

\* the arguments of the latest constructor call
NewCode == last.args[1]

NewVersion == IF Len(last.args) = 2 THEN last.args[2] ELSE DEFAULT_VERSION

KnownVersion(v) == v.kind = "text" /\ v.text \in DOMAIN DEFINITIONS.items

\* the table of a known version as the module defines it
TableOf(v) == DEFINITIONS.items[v.text]

\* g.is_valid is truthy
Valid(g) == Truthy(is_valid(g, definitions))

\* C1: after GICS(c, v) with a known version v, is_valid is truthy exactly
\* when c is a str of length 2, 4, 6 or 8 that is a key of v's table, and
\* when it is not, code is None whatever c was.
C1_ValidIffKeyOfTable ==
  (last.op = "GICS" /\ ~last.raised) =>
    LET g == objs[last.self]
        c == NewCode
    IN /\ Valid(g) <=> /\ c.kind = "str"
                       /\ Len(c.chars) \in {2, 4, 6, 8}
                       /\ c.chars \in DOMAIN TableOf(NewVersion).items
       /\ ~Valid(g) => code(g) = None

\* a code that is a key of another version's table only: invalid, cleared
C1_Witness ==
  /\ last.op = "GICS"
  /\ ~last.raised
  /\ last.args = <<Str(<<"1","1","1","1">>), Text("20160901")>>
  /\ ~Valid(objs[last.self])
  /\ code(objs[last.self]) = None

\* what level k of g has to be: the descriptor of the first 2k characters of
\* the code, named as the table names that prefix, or None
LevelAnswer(g, k, value) ==
  IF Valid(g) /\ k \in 1..4 /\ 2 * k <= Len(code(g).chars)
    THEN LET prefix == Prefix(code(g).chars, 2 * k)
         IN /\ value.kind = "map"
            /\ MapGet(value, "code") = Str(prefix)
            /\ prefix \in DOMAIN TableOf(g._definition_version).items
            /\ MapGet(value, "name") =
                 TableOf(g._definition_version).items[prefix].items.name
    ELSE value = None

\* C2: level(n) is a descriptor exactly when the instance is valid, n is an
\* integer in 1..4 and the code has at least 2n characters; the descriptor
\* then carries the first 2n characters as its code and the table's name of
\* that prefix; otherwise level(n) is None.  sector, industry_group, industry
\* and sub_industry answer as level(1), level(2), level(3), level(4).
C2_LevelAnswers ==
  LET g == objs[last.self]
  IN /\ last.op = "level" =>
          IF IsInstanceInt(last.args[1])
            THEN LevelAnswer(g, NumVal(last.args[1]), last.value)
            ELSE last.value = None
     /\ last.op = "sector" => LevelAnswer(g, 1, last.value)
     /\ last.op = "industry_group" => LevelAnswer(g, 2, last.value)
     /\ last.op = "industry" => LevelAnswer(g, 3, last.value)
     /\ last.op = "sub_industry" => LevelAnswer(g, 4, last.value)

\* level(4) of an 8-character code is the sub-industry with its description
C2_Witness ==
  /\ last.op = "level"
  /\ last.args = <<PyInt(4)>>
  /\ last.value # None
  /\ MapGet(last.value, "code") = Str(<<"1","0","1","0","1","0","1","1">>)
  /\ MapGet(last.value, "description") # None

\* C3: GICS(c, v) with v not a known version raises ValueError, whose
\* message lists the known versions, for every c; nothing is bound and the
\* tables are as they were.
C3_UnknownVersionRaises ==
  (last.op = "GICS" /\ ~KnownVersion(NewVersion)) =>
    /\ last.raised
    /\ last.value.type = "ValueError"
    /\ last.value.args[2] = NewVersion
    /\ last.value.args[4] =
         List(<<Text("20140228"), Text("20160901"), Text("20180929"),
                Text("20230318")>>)
    /\ objs[last.self] = Unbound
    /\ definitions = DEFINITIONS

\* an unknown version with a code that would be valid in every known one
C3_Witness ==
  /\ last.op = "GICS"
  /\ last.args = <<Str(<<"1","0">>), Text("blabla")>>
  /\ last.raised
  /\ last.value.type = "ValueError"

\* the keys of g's table that children has to list
ChildKeys(g) ==
  LET T == TableOf(g._definition_version)
  IN IF Valid(g)
       THEN {k \in DOMAIN T.items :
               startswith(k, code(g).chars) /\ Len(k) = Len(code(g).chars) + 2}
       ELSE {k \in DOMAIN T.items : Len(k) = 2}

\* C8: children is a list with exactly one {code, name, description} entry
\* per key to list: the keys of length 2 for an invalid instance, the keys
\* that extend the code by two characters for a valid one; none for a valid
\* code of 8 characters.
C8_ChildrenExact ==
  last.op = "children" =>
    LET g == objs[last.self]
        T == TableOf(g._definition_version)
        kids == last.value.elems
    IN /\ last.value.kind = "list"
       /\ \A i \in 1..Len(kids) :
            /\ kids[i].kind = "map"
            /\ DOMAIN kids[i].items = {"code", "name", "description"}
            /\ kids[i].items.code.kind = "str"
            /\ kids[i].items.code.chars \in ChildKeys(g)
            /\ kids[i].items.name =
                 MapGet(T.items[kids[i].items.code.chars], "name")
            /\ kids[i].items.description =
                 MapGet(T.items[kids[i].items.code.chars], "description")
       /\ \A k \in ChildKeys(g) :
            Cardinality({i \in 1..Len(kids) : kids[i].items.code.chars = k}) = 1
       /\ (Valid(g) /\ Len(code(g).chars) = 8) => kids = <<>>

\* the two sub-industries of industry 101010
C8_Witness ==
  /\ last.op = "children"
  /\ code(objs[last.self]) = Str(<<"1","0","1","0","1","0">>)
  /\ Len(last.value.elems) = 2
  /\ last.value.elems[1].items.description # None

\* C9: GICS(c, v) with a known version v returns for every c: the instance
\* is valid with its four levels set, or invalid with no code; no exception.
C9_ParsingTotal ==
  (last.op = "GICS" /\ KnownVersion(NewVersion)) =>
    /\ ~last.raised
    /\ Bound(last.self)
    /\ LET g == objs[last.self]
       IN IF Valid(g)
            THEN /\ code(g) = NewCode
                 /\ g._levels.kind = "list"
                 /\ Len(g._levels.elems) = 4
                 /\ g._levels.elems[1] # None
            ELSE /\ code(g) = None
                 /\ g._levels.kind = "unset"

\* an over-long string of which every prefix of even length is a key
C9_Witness ==
  /\ last.op = "GICS"
  /\ last.args = <<Str(<<"1","0","1","0","1","0","1","0","1">>)>>
  /\ ~last.raised
  /\ ~Valid(objs[last.self])

\* the operands of the latest call of a relation
Self == objs[last.self]

Other == objs[last.other]

RelationOps ==
  {"is_same", "is_within", "is_immediate_within", "contains",
   "contains_immediate"}

\* C4: a.is_same(b) is true exactly when a and b are equally valid and are
\* both invalid or have the same code string, whatever the versions and
\* whatever the tables hold for the code.
C4_IsSameByCode ==
  last.op = "is_same" =>
    (Truthy(last.value) <=>
       /\ Valid(Self) = Valid(Other)
       /\ ~Valid(Self) \/ code(Self) = code(Other))

\* a is strictly inside b: both valid, different codes, b's code a prefix
StrictlyWithin(a, b) ==
  /\ Valid(a)
  /\ Valid(b)
  /\ code(a) # code(b)
  /\ startswith(code(a).chars, code(b).chars)

\* C5: a.is_within(b) is true exactly when both are valid, the codes differ
\* and a's code starts with b's; never of an instance and itself; and
\* a.contains(b) is b.is_within(a).
C5_IsWithinStrictPrefix ==
  /\ last.op = "is_within" =>
       /\ Truthy(last.value) <=> StrictlyWithin(Self, Other)
       /\ last.self = last.other => ~Truthy(last.value)
       /\ code(Self) = code(Other) => ~Truthy(last.value)
  /\ last.op = "contains" =>
       /\ last.value = is_within(Other, Self, definitions)
       /\ Truthy(last.value) <=> StrictlyWithin(Other, Self)

\* a sub-industry is within its sector, three levels up
C5_Witness ==
  /\ last.op = "is_within"
  /\ Truthy(last.value)
  /\ Len(code(Self).chars) = 8
  /\ Len(code(Other).chars) = 2

\* C6: a.is_immediate_within(b) is true exactly when a.is_within(b) is and
\* a's code is two characters longer than b's; and a.contains_immediate(b)
\* is b.is_immediate_within(a).
C6_ImmediateOneLevel ==
  /\ last.op = "is_immediate_within" =>
       (Truthy(last.value) <=>
          /\ Truthy(is_within(Self, Other, definitions))
          /\ Len(code(Self).chars) = Len(code(Other).chars) + 2)
  /\ last.op = "contains_immediate" =>
       /\ last.value = is_immediate_within(Other, Self, definitions)
       /\ Truthy(last.value) <=>
            /\ Truthy(is_within(Other, Self, definitions))
            /\ Len(code(Other).chars) = Len(code(Self).chars) + 2

\* within, two levels down: not immediately within
C6_Witness ==
  /\ last.op = "is_immediate_within"
  /\ ~Truthy(last.value)
  /\ Truthy(is_within(Self, Other, definitions))
  /\ Len(code(Self).chars) = Len(code(Other).chars) + 4

\* C7: no relation raises, and with an invalid operand each is false, but
\* is_same of two invalid instances, which is true.
C7_RelationsTotal ==
  last.op \in RelationOps =>
    /\ ~last.raised
    /\ ~IsException(last.value)
    /\ (~Valid(Self) \/ ~Valid(Other)) =>
         (Truthy(last.value) <=>
            (last.op = "is_same" /\ ~Valid(Self) /\ ~Valid(Other)))

\* a valid instance asked whether it is within an invalid one
C7_Witness ==
  /\ last.op = "is_within"
  /\ Valid(Self)
  /\ ~Valid(Other)
  /\ ~last.raised
  /\ ~Truthy(last.value)

\* what the calls on an instance answer
Observe(g) ==
  IF g.kind # "GICS" THEN <<>>
  ELSE <<is_valid(g, definitions), code(g),
         [n \in 1..4 |-> level(g, definitions, PyInt(n))],
         children(g, definitions)>>

\* C10: no construction and no call changes the tables of DEFINITIONS (no
\* key, no field, no code field added); a call on instances changes no
\* instance, a construction binds its own variable only, and what the other
\* instance answers after it is what it answered before.
C10_TablesAndInstancesUnchanged ==
  [][/\ definitions = DEFINITIONS
     /\ definitions' = DEFINITIONS
     /\ last'.op # "GICS" => objs' = objs
     /\ last'.op = "GICS" =>
          \A s \in Slots \ {last'.self} :
            /\ objs'[s] = objs[s]
            /\ Bound(s) => Observe(objs[s])' = Observe(objs[s])
    ]_vars

\* two valid instances of one version, built from overlapping codes, queried
C10_Witness ==
  /\ definitions = DEFINITIONS
  /\ Bound("a")
  /\ Bound("b")
  /\ objs["a"]._definition_version = objs["b"]._definition_version
  /\ code(objs["a"]) = Str(<<"1","0">>)
  /\ code(objs["b"]) = Str(<<"1","0","1","0">>)
  /\ last.op = "sector"
  /\ last.self = "a"
  /\ MapGet(last.value, "code") = Str(<<"1","0">>)

====
